---- MODULE Spec2Model ----
(***************************************************************************)
(* XRAY code-intelligence engine: the SQLite store (core/schema.py), the   *)
(* indexer's build pipeline (core/indexer.py), the identity service        *)
(* (parsers/base.py) and the impact traversal (core/impact.py).            *)
(*                                                                         *)
(* Text values are sequences of one-character strings, so that LIKE,       *)
(* concatenation and text comparison are computed, not assumed.            *)
(***************************************************************************)
EXTENDS Integers, Sequences, FiniteSets, TLC

(***************************************************************************)
(* Text                                                                    *)
(***************************************************************************)

\* Python None / SQL NULL in a text column: a value no text can equal.
None == <<"<None>">>

\* SQL NULL in symbols.parent_id (AUTOINCREMENT ids start at 1).
NULL == 0

\* Python None in Symbol.parent_id (list indexes start at 0).
NoParent == -1

\* ASCII codes of the characters the model's texts are made of.
Code ==
  ("%" :> 37) @@ ("." :> 46) @@ ("/" :> 47) @@ (":" :> 58) @@ ("<" :> 60) @@
  (">" :> 62) @@ ("C" :> 67) @@ ("D" :> 68) @@
  ("F" :> 70) @@ ("K" :> 75) @@ ("_" :> 95) @@
  ("a" :> 97) @@ ("b" :> 98) @@ ("c" :> 99) @@ ("d" :> 100) @@ ("e" :> 101) @@
  ("f" :> 102) @@ ("g" :> 103) @@ ("h" :> 104) @@ ("i" :> 105) @@
  ("k" :> 107) @@ ("l" :> 108) @@ ("m" :> 109) @@ ("n" :> 110) @@
  ("o" :> 111) @@ ("p" :> 112) @@ ("q" :> 113) @@ ("r" :> 114) @@
  ("j" :> 106) @@ ("s" :> 115) @@ ("t" :> 116) @@ ("u" :> 117) @@
  ("v" :> 118) @@ ("x" :> 120) @@ ("y" :> 121)

\* ASCII case folding, as SQLite's LIKE and NOCASE do.
Lower(c) ==
  CASE c = "C" -> "c"
    [] c = "F" -> "f"
    [] c = "K" -> "k"
    [] OTHER -> c

\* memcmp order of two texts (SQLite's BINARY collation in ORDER BY).
RECURSIVE TextLess(_, _)
TextLess(s, t) ==
  IF t = <<>> THEN FALSE
  ELSE IF s = <<>> THEN TRUE
  ELSE IF Code[Head(s)] # Code[Head(t)] THEN Code[Head(s)] < Code[Head(t)]
  ELSE TextLess(Tail(s), Tail(t))

\* SQLite's LIKE: % matches any run, _ any one character, letters fold case.
RECURSIVE Like(_, _)
Like(pat, s) ==
  IF pat = <<>> THEN s = <<>>
  ELSE IF Head(pat) = "%"
    THEN Like(Tail(pat), s) \/ (s # <<>> /\ Like(pat, Tail(s)))
  ELSE /\ s # <<>>
       /\ (Head(pat) = "_" \/ Lower(Head(pat)) = Lower(Head(s)))
       /\ Like(Tail(pat), Tail(s))

\* Python truthiness of an Optional[str].
Truthy(t) == t # None /\ t # <<>>

(***************************************************************************)
(* Paths                                                                   *)
(***************************************************************************)

\* The indexed root, XRayIndexer.repo_path.
repo_path == <<"/">>

\* str(Path(file).relative_to(repo_path)) for a file below the root.
relative_to(file) == SubSeq(file, Len(repo_path) + 1, Len(file))

FileA == repo_path \o <<"a", ".", "p", "y">>
FileB == repo_path \o <<"b", ".", "p", "y">>
FileC == repo_path \o <<"c", ".", "g", "o">>

(***************************************************************************)
(* Parser records (parsers/base.py) and the identity service               *)
(***************************************************************************)

\* A Symbol as a front-end emits it; parent_id is an index into the list
\* of symbols of the SAME file, or NoParent.
Symbol(name, kind, file, line, column, end_line, parent_id) ==
  [name |-> name, kind |-> kind, file |-> file, line |-> line,
   column |-> column, end_line |-> end_line, parent_id |-> parent_id]

\* An Edge as a front-end emits it: names, not ids.
Edge(from_symbol, to_symbol, from_file, to_file) ==
  [from_symbol |-> from_symbol, to_symbol |-> to_symbol,
   from_file |-> from_file, to_file |-> to_file]

\* An Optional[Symbol] is a sequence of zero or one symbols.
generate_canonical_id(symbol, parent_symbol) ==
  LET file_path == relative_to(symbol.file)
      hierarchical_name ==
        IF parent_symbol # <<>>
          THEN parent_symbol[1].name \o <<".">> \o symbol.name
          ELSE symbol.name
  IN  file_path \o <<":">> \o hierarchical_name

\* Alias generation that skips the qualified name.
generate_all_aliases_without_qualified(symbol, parent_symbol, context_file) ==
  <<[alias_type |-> "canonical",
     alias_name |-> generate_canonical_id(symbol, parent_symbol),
     context_file |-> None],
    [alias_type |-> "simple", alias_name |-> symbol.name,
     context_file |-> context_file]>>

generate_all_aliases(symbol, parent_symbol, context_file) ==
  LET canonical ==
        <<[alias_type |-> "canonical",
           alias_name |-> generate_canonical_id(symbol, parent_symbol),
           context_file |-> None]>>
      simple ==
        <<[alias_type |-> "simple", alias_name |-> symbol.name,
           context_file |-> context_file]>>
      qualified ==
        IF parent_symbol # <<>>
          THEN <<[alias_type |-> "qualified",
                  alias_name |-> parent_symbol[1].name \o <<".">> \o symbol.name,
                  context_file |-> context_file]>>
          ELSE <<>>
      import ==
        IF symbol.kind = "import" /\ Truthy(context_file)
          THEN <<[alias_type |-> "import", alias_name |-> symbol.name,
                  context_file |-> context_file]>>
          ELSE <<>>
  IN  canonical \o simple \o qualified \o import

(***************************************************************************)
(* What parse_file returns for a handful of source texts.  PythonParser:    *)
(* extract_symbols lists the functions first (methods among them, their    *)
(* parent_id the index of their class in this list), then the classes,     *)
(* then the imports (which carry no end_line).  extract_edges names the    *)
(* enclosing function of each call site; a call by bare name leaves        *)
(* to_file unset.                                                          *)
(***************************************************************************)

\*   def f():
\*       f()
\*       g()
\*   def g():
\*       pass
SrcTwo(file) ==
  [symbols |-> <<Symbol(<<"f">>, "function", file, 1, 4, 3, NoParent),
                 Symbol(<<"g">>, "function", file, 4, 4, 5, NoParent)>>,
   edges   |-> <<Edge(<<"f">>, <<"f">>, file, None),
                 Edge(<<"f">>, <<"g">>, file, None)>>]

\*   class C:
\*       def m(self):
\*           g()
SrcCls(file) ==
  [symbols |-> <<Symbol(<<"m">>, "method", file, 2, 8, 3, 1),
                 Symbol(<<"C">>, "class", file, 1, 6, 3, NoParent)>>,
   edges   |-> <<Edge(<<"m">>, <<"g">>, file, None)>>]

\*   from a import g
\*   def h():
\*       g()
SrcImp(file) ==
  [symbols |-> <<Symbol(<<"h">>, "function", file, 2, 4, 3, NoParent),
                 Symbol(<<"g">>, "import", file, 1, 14, 0, NoParent)>>,
   edges   |-> <<Edge(<<"h">>, <<"g">>, file, None)>>]

\*   def f():
\*       pass
\*   def f():
\*       pass
SrcDup(file) ==
  [symbols |-> <<Symbol(<<"f">>, "function", file, 1, 4, 2, NoParent),
                 Symbol(<<"f">>, "function", file, 3, 4, 4, NoParent)>>,
   edges   |-> <<>>]

\*   def gg():
\*       pass
\*   def k():
\*       g()
\*       gg()
SrcSub(file) ==
  [symbols |-> <<Symbol(<<"g", "g">>, "function", file, 1, 4, 2, NoParent),
                 Symbol(<<"k">>, "function", file, 3, 4, 5, NoParent)>>,
   edges   |-> <<Edge(<<"k">>, <<"g">>, file, None),
                 Edge(<<"k">>, <<"g", "g">>, file, None)>>]

\*   class D:
\*       def m(self):
\*           pass
\*       def n(self):
\*           self.m()
\* The call site self.m() matches the call query (an edge to m within the
\* file, then the edge every call ends with, to_file unset) and the
\* attribute query (an edge to self within the file, an edge to m with
\* to_file unset).
SrcSlf(file) ==
  [symbols |-> <<Symbol(<<"m">>, "method", file, 2, 8, 3, 2),
                 Symbol(<<"n">>, "method", file, 4, 8, 5, 2),
                 Symbol(<<"D">>, "class", file, 1, 6, 5, NoParent)>>,
   edges   |-> <<Edge(<<"n">>, <<"m">>, file, file),
                 Edge(<<"n">>, <<"m">>, file, None),
                 Edge(<<"n">>, <<"s", "e", "l", "f">>, file, file),
                 Edge(<<"n">>, <<"m">>, file, None)>>]

\* return [], []
SrcNone ==
  [symbols |-> <<>>, edges |-> <<>>]

(***************************************************************************)
(* The store (core/schema.py): relations symbols, symbol_aliases, edges    *)
(***************************************************************************)

\* The spelling of the alias_type column values; ORDER BY a.alias_type
\* compares these texts.
AliasTypeText ==
  ("canonical" :> <<"c", "a", "n", "o", "n", "i", "c", "a", "l">>) @@
  ("import"    :> <<"i", "m", "p", "o", "r", "t">>) @@
  ("qualified" :> <<"q", "u", "a", "l", "i", "f", "i", "e", "d">>) @@
  ("simple"    :> <<"s", "i", "m", "p", "l", "e">>)

\* A clear that forgets DELETE FROM symbols.
clear_database_keeps_symbols(db) ==
  [db EXCEPT !.aliases = {}, !.edges = {}]

\* DELETE FROM edges; DELETE FROM symbol_aliases; DELETE FROM symbols, in
\* one transaction.  The AUTOINCREMENT sequences are kept.
clear_database(db) ==
  [db EXCEPT !.symbols = {}, !.aliases = {}, !.edges = {}]

\* The symbols row of one record, stored under a given id.
SymbolRow(id, record) ==
  [id |-> id, canonical_id |-> record.canonical_id, name |-> record.name,
   kind |-> record.kind, file |-> record.file, line |-> record.line,
   column |-> record.column, end_line |-> record.end_line,
   parent_id |-> record.parent_id]

\* canonical_id TEXT NOT NULL UNIQUE: the bulk insert raises when two
\* records, or a record and a stored row, share a canonical id.
UniqueViolation(db, records) ==
  \/ \E i, j \in 1..Len(records) :
        i # j /\ records[i].canonical_id = records[j].canonical_id
  \/ \E i \in 1..Len(records) : \E s \in db.symbols :
        s.canonical_id = records[i].canonical_id

\* The ids cursor.lastrowid reports for the records, in order.
InsertedIds(db, records) ==
  [i \in 1..Len(records) |-> db.next_symbol_id + i - 1]

\* A bulk insert that loses its last row.
insert_symbols_bulk_drops_last(db, records) ==
  IF UniqueViolation(db, records)
    THEN db
    ELSE [db EXCEPT
            !.symbols = @ \cup {SymbolRow(InsertedIds(db, records)[i], records[i]) :
                                  i \in 1..(Len(records) - 1)},
            !.next_symbol_id = @ + Len(records)]

\* One transaction; a raise inside it rolls all of it back.
insert_symbols_bulk(db, records) ==
  IF UniqueViolation(db, records)
    THEN db
    ELSE [db EXCEPT
            !.symbols = @ \cup {SymbolRow(InsertedIds(db, records)[i], records[i]) :
                                  i \in 1..Len(records)},
            !.next_symbol_id = @ + Len(records)]

\* symbol_aliases has no uniqueness constraint besides its own rowid, so
\* INSERT OR IGNORE stores every alias.
insert_aliases_bulk(db, alias_list) ==
  [db EXCEPT
     !.aliases = @ \cup {[id |-> db.next_alias_id + i - 1,
                          symbol_id |-> alias_list[i].symbol_id,
                          alias_type |-> alias_list[i].alias_type,
                          alias_name |-> alias_list[i].alias_name,
                          context_file |-> alias_list[i].context_file] :
                           i \in 1..Len(alias_list)},
     !.next_alias_id = @ + Len(alias_list)]

\* The three-way CASE of the ORDER BY clause.
MatchBucket(alias_name, query) ==
  IF alias_name = query THEN 0
  ELSE IF Like(query \o <<"%">>, alias_name) THEN 1
  ELSE 2

\* A WHERE clause without the context condition.
AliasMatches_any_context(a, query, context_file) ==
  Like(<<"%">> \o query \o <<"%">>, a.alias_name)

\* The WHERE clause: the LIKE, and the context condition when a context
\* file was passed (Python truthiness).
AliasMatches(a, query, context_file) ==
  /\ Like(<<"%">> \o query \o <<"%">>, a.alias_name)
  /\ Truthy(context_file) =>
        (a.context_file = None \/ a.context_file = context_file)

\* The joined aliases that satisfy the WHERE clause.
MatchedAliases(db, query, context_file) ==
  {a \in db.aliases :
     /\ \E s \in db.symbols : s.id = a.symbol_id
     /\ AliasMatches(a, query, context_file)}

\* SELECT DISTINCT s.*, a.alias_name AS matched_alias, a.alias_type AS
\* match_type: the set of distinct result rows.
AliasRows(db, query, context_file) ==
  {[id |-> s.id, canonical_id |-> s.canonical_id, name |-> s.name,
    kind |-> s.kind, file |-> s.file, line |-> s.line, column |-> s.column,
    end_line |-> s.end_line, parent_id |-> s.parent_id,
    matched_alias |-> a.alias_name, match_type |-> a.alias_type] :
     <<s, a>> \in {p \in db.symbols \X MatchedAliases(db, query, context_file) :
                     p[1].id = p[2].symbol_id}}

\* ORDER BY bucket, a.alias_type, s.name.  Rows the clause leaves tied come
\* out in the order SQLite happens to produce them, here rowid order
\* ascending or descending (tie), the same for every query of a run.
AliasRowBefore(r1, r2, query, tie) ==
  LET b1 == MatchBucket(r1.matched_alias, query)
      b2 == MatchBucket(r2.matched_alias, query)
      t1 == AliasTypeText[r1.match_type]
      t2 == AliasTypeText[r2.match_type]
  IN  IF b1 # b2 THEN b1 < b2
      ELSE IF t1 # t2 THEN TextLess(t1, t2)
      ELSE IF r1.name # r2.name THEN TextLess(r1.name, r2.name)
      ELSE IF r1.id # r2.id
        THEN IF tie = "asc" THEN r1.id < r2.id ELSE r1.id > r2.id
      ELSE TextLess(r1.matched_alias, r2.matched_alias)

RECURSIVE SortAliasRows(_, _, _)
SortAliasRows(rows, query, tie) ==
  IF rows = {} THEN <<>>
  ELSE LET first == CHOOSE r \in rows :
                      \A o \in rows \ {r} : ~AliasRowBefore(o, r, query, tie)
       IN  <<first>> \o SortAliasRows(rows \ {first}, query, tie)

\* A query without its LIMIT.
Take_unlimited(seq, limit) == seq

\* LIMIT ?
Take(seq, limit) ==
  SubSeq(seq, 1, IF Len(seq) < limit THEN Len(seq) ELSE limit)

find_symbols_by_alias(db, query, limit, context_file, tie) ==
  Take(SortAliasRows(AliasRows(db, query, context_file), query, tie), limit)

\* INSERT OR IGNORE under PRIMARY KEY (from_id, to_id, edge_type): of the
\* tuples that share a key one is stored.  The tuples arrive in the
\* iteration order of a Python set, so which one is not fixed: every
\* outcome is a possible store.
insert_edges_bulk(db, edge_tuples) ==
  {[db EXCEPT !.edges = @ \cup kept] :
     kept \in {k \in SUBSET {[from_id |-> t[1], to_id |-> t[2], edge_type |-> t[3],
                              provenance |-> t[4]] : t \in edge_tuples} :
                 /\ \A t \in edge_tuples :
                       \/ \E e \in db.edges \cup k :
                            e.from_id = t[1] /\ e.to_id = t[2] /\ e.edge_type = t[3]
                 /\ \A e1 \in k : \A e2 \in db.edges \cup k :
                       (e1.from_id = e2.from_id /\ e1.to_id = e2.to_id
                          /\ e1.edge_type = e2.edge_type) => e1 = e2}}

\* ORDER BY s.file, s.line of the dependency queries; rows the clause
\* leaves tied come out in either order (tie).
DependentRowBefore(r1, r2, tie) ==
  IF r1.file # r2.file THEN TextLess(r1.file, r2.file)
  ELSE IF r1.line # r2.line THEN r1.line < r2.line
  ELSE IF r1.id # r2.id
    THEN IF tie = "asc" THEN r1.id < r2.id ELSE r1.id > r2.id
  ELSE IF r1.edge_type # r2.edge_type
    THEN IF tie = "asc" THEN r1.edge_type = "access" ELSE r2.edge_type = "access"
  ELSE FALSE

\* The rows in that order: a row stands after the rows that come before it.
SortDependentRows(rows, tie) ==
  [i \in 1..Cardinality(rows) |->
     CHOOSE r \in rows :
        Cardinality({o \in rows : DependentRowBefore(o, r, tie)}) = i - 1]

\* One row of edges JOIN symbols.
DependencyRow(s, e) ==
  [id |-> s.id, canonical_id |-> s.canonical_id, name |-> s.name, kind |-> s.kind,
   file |-> s.file, line |-> s.line, column |-> s.column,
   edge_type |-> e.edge_type, provenance |-> e.provenance]

\* FROM edges e JOIN symbols s ON s.id = e.to_id WHERE e.from_id = ?
get_symbol_dependencies(db, symbol_id, tie) ==
  LET rows == UNION {{DependencyRow(s, e) : s \in {x \in db.symbols : x.id = e.to_id}} :
                       e \in {x \in db.edges : x.from_id = symbol_id}}
  IN  SortDependentRows(rows, tie)

\* The query with the two sides of the edge exchanged.
get_symbol_dependents_of_from_side(db, symbol_id, tie) ==
  get_symbol_dependencies(db, symbol_id, tie)

\* FROM edges e JOIN symbols s ON s.id = e.from_id WHERE e.to_id = ?
get_symbol_dependents(db, symbol_id, tie) ==
  LET rows == UNION {{DependencyRow(s, e) : s \in {x \in db.symbols : x.id = e.from_id}} :
                       e \in {x \in db.edges : x.to_id = symbol_id}}
  IN  SortDependentRows(rows, tie)

(***************************************************************************)
(* The indexer (core/indexer.py)                                           *)
(***************************************************************************)

\* Python's  needle in hay  for texts.
IsSubstring(needle, hay) ==
  \E i \in 0..(Len(hay) - Len(needle)) :
     SubSeq(hay, i + 1, i + Len(needle)) = needle

LowerText(t) == [i \in 1..Len(t) |-> Lower(t[i])]

IsUpper(c) == Lower(c) # c

ModuleSentinel == <<"<", "m", "o", "d", "u", "l", "e", ">">>

\* The parent the indexer uses for a symbol: all_symbols[symbol.parent_id],
\* indexing the list of ALL files' symbols with the per-file index.
ParentSymbol(all_symbols, symbol) ==
  IF symbol.parent_id # NoParent /\ symbol.parent_id < Len(all_symbols)
    THEN <<all_symbols[symbol.parent_id + 1]>>
    ELSE <<>>

\* First pass: the records handed to insert_symbols_bulk.
SymbolRecords(all_symbols) ==
  [i \in 1..Len(all_symbols) |->
     [canonical_id |-> generate_canonical_id(all_symbols[i],
                                             ParentSymbol(all_symbols, all_symbols[i])),
      name |-> all_symbols[i].name, kind |-> all_symbols[i].kind,
      file |-> relative_to(all_symbols[i].file), line |-> all_symbols[i].line,
      column |-> all_symbols[i].column, end_line |-> all_symbols[i].end_line,
      parent_id |-> NULL]]

\* The aliases of every symbol, each tagged with the symbol's store id.
RECURSIVE AllAliases(_, _, _)
AllAliases(all_symbols, inserted_ids, i) ==
  IF i > Len(all_symbols) THEN <<>>
  ELSE LET symbol_aliases ==
             generate_all_aliases(all_symbols[i],
                                  ParentSymbol(all_symbols, all_symbols[i]),
                                  all_symbols[i].file)
       IN  [k \in 1..Len(symbol_aliases) |->
              [symbol_id |-> inserted_ids[i],
               alias_type |-> symbol_aliases[k].alias_type,
               alias_name |-> symbol_aliases[k].alias_name,
               context_file |-> symbol_aliases[k].context_file]]
           \o AllAliases(all_symbols, inserted_ids, i + 1)

\* Second pass: UPDATE symbols SET parent_id = ? WHERE id = ?, for every
\* symbol whose parent_id is a key of symbol_list_to_db_id.
UpdateParents(db, all_symbols, inserted_ids) ==
  LET Updated(id) == {i \in 1..Len(all_symbols) :
                        /\ inserted_ids[i] = id
                        /\ all_symbols[i].parent_id # NoParent
                        /\ all_symbols[i].parent_id + 1 \in DOMAIN inserted_ids}
  IN  [db EXCEPT !.symbols =
         {IF Updated(s.id) # {}
            THEN [s EXCEPT !.parent_id =
                    inserted_ids[all_symbols[CHOOSE i \in Updated(s.id) : TRUE].parent_id + 1]]
            ELSE s : s \in @}]

ResolveLimit == 1

_resolve_symbol_id_by_alias(db, symbol_name, context_file, tie) ==
  IF symbol_name = <<>> \/ symbol_name = ModuleSentinel THEN NULL
  ELSE LET matches == find_symbols_by_alias(db, symbol_name, ResolveLimit,
                                            context_file, tie)
       IN  IF matches # <<>> THEN matches[1].id ELSE NULL

_determine_edge_type(edge) ==
  IF IsSubstring(<<"(">>, edge.to_symbol) THEN "call"
  ELSE IF IsSubstring(<<"i", "m", "p", "o", "r", "t">>, LowerText(edge.from_symbol))
    THEN "import"
  ELSE IF IsUpper(edge.to_symbol[1]) THEN "instantiate"
  ELSE "access"

\* The loop without the from_id != to_id test.
ResolvedEdge_with_self_loops(db, edge, tie) ==
  LET from_id == _resolve_symbol_id_by_alias(db, edge.from_symbol, edge.from_file, tie)
      to_id   == _resolve_symbol_id_by_alias(db, edge.to_symbol, edge.to_file, tie)
  IN  IF from_id # NULL /\ to_id # NULL
        THEN {<<from_id, to_id, _determine_edge_type(edge),
                edge.from_symbol \o <<" ", "-", ">", " ">> \o edge.to_symbol>>}
        ELSE {}

\* The tuple the loop appends for one edge, or none.
ResolvedEdge(db, edge, tie) ==
  LET from_id == _resolve_symbol_id_by_alias(db, edge.from_symbol, edge.from_file, tie)
      to_id   == _resolve_symbol_id_by_alias(db, edge.to_symbol, edge.to_file, tie)
  IN  IF from_id # NULL /\ to_id # NULL /\ from_id # to_id
        THEN {<<from_id, to_id, _determine_edge_type(edge),
                edge.from_symbol \o <<" ", "-", ">", " ">> \o edge.to_symbol>>}
        ELSE {}

CrossFileLimit == 10

\* The first match that is a class or function of another file, if any.
_create_cross_file_edges_new(db, all_symbols, inserted_ids, tie) ==
  UNION {LET file_path == relative_to(all_symbols[i].file)
             import_name == all_symbols[i].name
             definition_matches ==
               find_symbols_by_alias(db, import_name, CrossFileLimit, None, tie)
             hits == {k \in 1..Len(definition_matches) :
                        /\ definition_matches[k].kind \in {"class", "function"}
                        /\ definition_matches[k].file # file_path}
         IN  IF hits = {} THEN {}
             ELSE LET match == definition_matches[CHOOSE k \in hits :
                                                    \A o \in hits : k <= o]
                  IN  {<<inserted_ids[i], match.id, "import",
                         <<"i", "m", "p", "o", "r", "t", " ">> \o import_name
                           \o <<" ", "f", "r", "o", "m", " ">> \o match.file>>} :
           i \in {j \in 1..Len(all_symbols) : all_symbols[j].kind = "import"}}

\* list(set(edge_tuples)): the distinct tuples, provenance included.
EdgeTuples(db, all_symbols, all_edges, inserted_ids, tie) ==
  UNION {ResolvedEdge(db, all_edges[k], tie) : k \in 1..Len(all_edges)}
    \cup _create_cross_file_edges_new(db, all_symbols, inserted_ids, tie)

(***************************************************************************)
(* State                                                                   *)
(***************************************************************************)

VARIABLES
  tree,            \* the source tree: what each file of the root holds
  db,              \* .xray/xray.db: symbols, symbol_aliases, edges, sequences
  sys_bound,       \* whether the name sys resolves in parsers/base.py
  tie,             \* the order in which SQLite returns rows an ORDER BY ties
  pc,              \* where build_index stands
  all_symbols,     \* build_index locals
  all_edges,
  files_processed,
  inserted_ids,
  edge_tuples,
  errors,          \* XRayIndexer.errors
  result,          \* the IndexingResult of the last finished build
  builds,          \* builds started so far
  built_tree,      \* the tree the last build was started on
  unchanged,       \* the running/last build indexes the tree of the one before
  prev_db,         \* the store as it was when the last build began
  prev_result,     \* the result of the build before the last
  found,           \* the last find_symbols_by_alias call and its rows
  search,          \* the last find_symbols call and its SymbolSearchResult
  located,         \* the last get_symbol_at_location call and its result
  symbol_name,     \* analyze_impact arguments and locals
  max_depth,
  ipc,
  seed,
  queue,
  visited,
  impacts,
  analysis,        \* the ImpactAnalysisResult
  calls,           \* analyze_impact calls begun so far
  prev_call,       \* the impacts and result of the call before the last
  discovered,      \* a directory walk and what find_source_files made of it
  schema_present,  \* whether xray.db holds the relations
  components,      \* the components constructed on the root
  outcome,         \* the last query call and what came of it
  project          \* what analyze_project_wide_impact returned

vars ==
  <<tree, db, sys_bound, tie, pc, all_symbols, all_edges, files_processed,
    inserted_ids, edge_tuples, errors, result, builds, built_tree, unchanged,
    prev_db,
    prev_result, found, search, located, symbol_name, max_depth, ipc, seed,
    queue, visited, impacts, analysis, calls, prev_call, discovered,
    schema_present, components, outcome, project>>

\* Builds of one behaviour.
MaxBuilds == 2

\* build_index(path, force_rebuild=True): no caller passes another value.
force_rebuild == TRUE

Files == <<FileA, FileB, FileC>>

\* What a file of the tree may hold.
Contents ==
  (FileA :> {"absent", "two", "cls", "dup", "sub"}) @@
  (FileB :> {"absent", "bad", "cls", "imp", "slf"}) @@
  (FileC :> {"absent", "go"})

Trees == {t \in [{FileA, FileB, FileC} ->
                   {"absent", "bad", "two", "cls", "imp", "dup", "sub", "slf", "go"}] :
            \A f \in {FileA, FileB, FileC} : t[f] \in Contents[f]}

\* LanguageDetector.detect_language: the language of the file's suffix.
detect_language(file) ==
  IF SubSeq(file, Len(file) - 2, Len(file)) = <<".", "p", "y">> THEN "python"
  ELSE IF SubSeq(file, Len(file) - 2, Len(file)) = <<".", "g", "o">> THEN "go"
  ELSE "none"

\* XRayIndexer._setup_languages registers the Python parser and no other.
RegisteredLanguages == {"python"}

\* LanguageParser.parse_file of the Python parser: "bad" is a file whose
\* read or extraction raises (unreadable, or bytes that do not decode);
\* the except clause prints the error and returns ([], []).
LanguageParser_parse_file(t, file) ==
  CASE t[file] = "two" -> SrcTwo(file)
    [] t[file] = "cls" -> SrcCls(file)
    [] t[file] = "imp" -> SrcImp(file)
    [] t[file] = "dup" -> SrcDup(file)
    [] t[file] = "sub" -> SrcSub(file)
    [] t[file] = "slf" -> SrcSlf(file)
    [] OTHER -> SrcNone

\* LanguageRegistry.parse_file: ([], []) for a file without a registered
\* parser, else what the parser returns.  It raises for no file.
parse_file(t, file) ==
  IF detect_language(file) \notin RegisteredLanguages
    THEN SrcNone
    ELSE LanguageParser_parse_file(t, file)

\* The relations a query can read.
Snapshot(d) == [symbols |-> d.symbols, aliases |-> d.aliases, edges |-> d.edges]

EmptyDb ==
  [symbols |-> {}, aliases |-> {}, edges |-> {},
   next_symbol_id |-> 1, next_alias_id |-> 1, metadata |-> {}]

IndexingResult(success, files_indexed, symbols_found, edges_created, error_list) ==
  [success |-> success, files_indexed |-> files_indexed,
   symbols_found |-> symbols_found, edges_created |-> edges_created,
   errors |-> error_list]

NoResult == IndexingResult(FALSE, 0, 0, 0, <<>>)

locals == <<all_symbols, all_edges, files_processed, inserted_ids, edge_tuples, errors>>
history == <<builds, built_tree, unchanged, prev_db, prev_result>>
env == <<sys_bound, tie>>
query_vars == <<found, search, located>>
lazy_vars == <<schema_present, components, outcome>>
tool_vars == <<discovered, lazy_vars, project>>
impact_vars ==
  <<symbol_name, max_depth, ipc, seed, queue, visited, impacts, analysis, calls,
    prev_call>>

NoDiscovery == [root_path |-> <<>>, entries |-> {}, ignore_patterns |-> {},
                source_files |-> <<>>, returned |-> FALSE]

NoProject ==
  [max_symbols |-> 0, high_impact_symbols |-> <<>>, detailed_impacts |-> <<>>,
   total_symbols_analyzed |-> 0, project_coupling_score |-> <<0, 1>>]

NoOutcome == [op |-> "none", args |-> <<>>, raised |-> FALSE, value |-> <<>>]

\* XRayIndexer.__init__ has run initialize_database_if_needed on the root,
\* and the query engine and the impact analyzer were constructed.
StoreOpened ==
  /\ schema_present = TRUE
  /\ components = {"indexer", "query_engine", "impact_analyzer"}
  /\ outcome = NoOutcome

NoFind == [query |-> <<>>, limit |-> 0, context_file |-> None, rows |-> <<>>]

NoSearch == [query |-> <<>>, limit |-> 0, total_matches |-> 0, symbols |-> <<>>]

NoLocation == [file |-> <<>>, line |-> 0, symbol |-> <<>>]

NoAnalysis ==
  [found |-> FALSE, total_impacts |-> 0, max_depth |-> 0,
   impacts_by_depth |-> <<>>, impacts_by_file |-> <<>>]

\* No analysis is running.
ImpactIdle ==
  /\ symbol_name = <<>>
  /\ max_depth = 0
  /\ ipc = "idle"
  /\ seed = NULL
  /\ queue = <<>>
  /\ visited = {}
  /\ impacts = <<>>
  /\ analysis = NoAnalysis
  /\ calls = 0
  /\ prev_call = [impacts |-> <<>>, analysis |-> NoAnalysis]

\* XRayIndexer.__init__ on a root that was never indexed:
\* initialize_database_if_needed creates the empty relations.
Init ==
  /\ tree \in Trees
  /\ db = EmptyDb
  /\ sys_bound \in BOOLEAN
  /\ tie \in {"asc", "desc"}
  /\ pc = "idle"
  /\ all_symbols = <<>>
  /\ all_edges = <<>>
  /\ files_processed = 0
  /\ inserted_ids = <<>>
  /\ edge_tuples = {}
  /\ errors = <<>>
  /\ result = NoResult
  /\ builds = 0
  /\ built_tree = tree
  /\ unchanged = FALSE
  /\ prev_db = EmptyDb
  /\ prev_result = NoResult
  /\ found = NoFind
  /\ search = NoSearch
  /\ located = NoLocation
  /\ discovered = NoDiscovery
  /\ StoreOpened
  /\ project = NoProject
  /\ ImpactIdle

(***************************************************************************)
(* build_index, one action per store transaction                           *)
(***************************************************************************)

\* One file of the root is written, created or removed between builds.
EditTree(file, content) ==
  /\ pc = "idle"
  /\ builds < MaxBuilds
  /\ content \in Contents[file]
  /\ content # tree[file]
  /\ tree' = [tree EXCEPT ![file] = content]
  /\ UNCHANGED <<db, env, pc, locals, result, history>>
  /\ UNCHANGED <<query_vars, impact_vars, tool_vars>>

\* Entry of build_index.
BuildStart ==
  /\ pc = "idle"
  /\ builds < MaxBuilds
  /\ pc' = "clear"
  /\ builds' = builds + 1
  /\ built_tree' = tree
  /\ unchanged' = (builds >= 1 /\ built_tree = tree)
  /\ prev_db' = db
  /\ prev_result' = result
  /\ errors' = <<>>
  /\ UNCHANGED <<tree, db, env, all_symbols, all_edges, files_processed, inserted_ids,
                 edge_tuples, result>>
  /\ UNCHANGED <<query_vars, impact_vars, tool_vars>>

\* if force_rebuild: self.db.clear_database()
Clear ==
  /\ pc = "clear"
  /\ db' = IF force_rebuild THEN clear_database(db) ELSE db
  /\ pc' = "discover"
  /\ UNCHANGED <<tree, env, locals, result, history>>
  /\ UNCHANGED <<query_vars, impact_vars, tool_vars>>

\* The except clause of build_index: the build returns a failure.
Failed(message) ==
  /\ result' = IndexingResult(FALSE, 0, 0, 0, <<message>>)
  /\ pc' = "idle"
  /\ all_symbols' = <<>>
  /\ all_edges' = <<>>
  /\ files_processed' = 0
  /\ inserted_ids' = <<>>
  /\ edge_tuples' = {}
  /\ UNCHANGED errors

\* LanguageDetector.find_source_files as the indexer uses it: the files of
\* the tree, sorted.
find_source_files(t) ==
  SelectSeq(Files, LAMBDA f : t[f] # "absent")

\* find_source_files prints every entry of the walk to sys.stderr, and
\* parsers/base.py does not import sys: where the name is unbound the
\* first entry (the root always holds .xray) raises NameError, which
\* build_index turns into a failed build.
DiscoverRaise ==
  /\ pc = "discover"
  /\ ~sys_bound
  /\ Failed("Indexing failed: name 'sys' is not defined")
  /\ UNCHANGED <<tree, db, env, history>>
  /\ UNCHANGED <<query_vars, impact_vars, tool_vars>>

\* if not source_files: return IndexingResult(success=True, ...)
DiscoverNone ==
  /\ pc = "discover"
  /\ sys_bound
  /\ find_source_files(tree) = <<>>
  /\ result' = IndexingResult(TRUE, 0, 0, 0, <<"No supported source files found">>)
  /\ pc' = "idle"
  /\ UNCHANGED <<tree, db, env, locals, history>>
  /\ UNCHANGED <<query_vars, impact_vars, tool_vars>>

\* Whether self.registry.parse_file raises into the loop of build_index:
\* LanguageParser.parse_file catches every Exception of reading and
\* extraction itself, and the registry's own steps are dictionary lookups.
parse_file_raises(t, file) == FALSE

\* The symbols, edges, file count and errors after the parse loop over the
\* first n source files: a file counts, and contributes, only if it has
\* symbols; a raise is recorded in self.errors and the loop continues.
RECURSIVE Parsed(_, _, _)
Parsed(t, source_files, n) ==
  IF n = 0 THEN [symbols |-> <<>>, edges |-> <<>>, files |-> 0, errors |-> <<>>]
  ELSE LET before == Parsed(t, source_files, n - 1)
           parsed == parse_file(t, source_files[n])
       IN  IF parse_file_raises(t, source_files[n])
             THEN [before EXCEPT !.errors = @ \o <<<<"Error processing", source_files[n]>>>>]
           ELSE IF parsed.symbols # <<>>
             THEN [before EXCEPT !.symbols = @ \o parsed.symbols,
                                 !.edges = @ \o parsed.edges,
                                 !.files = @ + 1]
             ELSE before

Parse ==
  /\ pc = "discover"
  /\ sys_bound
  /\ find_source_files(tree) # <<>>
  /\ LET source_files == find_source_files(tree)
         parsed == Parsed(tree, source_files, Len(source_files))
     IN  /\ all_symbols' = parsed.symbols
         /\ all_edges' = parsed.edges
         /\ files_processed' = parsed.files
         /\ errors' = errors \o parsed.errors
  /\ pc' = "insert_symbols"
  /\ UNCHANGED <<tree, db, env, inserted_ids, edge_tuples, result, history>>
  /\ UNCHANGED <<query_vars, impact_vars, tool_vars>>

InsertSymbols ==
  /\ pc = "insert_symbols"
  /\ ~UniqueViolation(db, SymbolRecords(all_symbols))
  /\ db' = insert_symbols_bulk(db, SymbolRecords(all_symbols))
  /\ inserted_ids' = InsertedIds(db, SymbolRecords(all_symbols))
  /\ pc' = "insert_aliases"
  /\ UNCHANGED <<tree, env, all_symbols, all_edges, files_processed, edge_tuples,
                 errors, result, history>>
  /\ UNCHANGED <<query_vars, impact_vars, tool_vars>>

\* sqlite3.IntegrityError out of insert_symbols_bulk: its transaction is
\* rolled back, the build fails.
InsertSymbolsRaise ==
  /\ pc = "insert_symbols"
  /\ UniqueViolation(db, SymbolRecords(all_symbols))
  /\ db' = insert_symbols_bulk(db, SymbolRecords(all_symbols))
  /\ Failed("Indexing failed: UNIQUE constraint failed: symbols.canonical_id")
  /\ UNCHANGED <<tree, env, history>>
  /\ UNCHANGED <<query_vars, impact_vars, tool_vars>>

InsertAliases ==
  /\ pc = "insert_aliases"
  /\ LET all_aliases == AllAliases(all_symbols, inserted_ids, 1)
     IN  db' = IF all_aliases # <<>> THEN insert_aliases_bulk(db, all_aliases) ELSE db
  /\ pc' = "update_parents"
  /\ UNCHANGED <<tree, env, locals, result, history>>
  /\ UNCHANGED <<query_vars, impact_vars, tool_vars>>

PatchParents ==
  /\ pc = "update_parents"
  /\ db' = UpdateParents(db, all_symbols, inserted_ids)
  /\ pc' = "insert_edges"
  /\ UNCHANGED <<tree, env, locals, result, history>>
  /\ UNCHANGED <<query_vars, impact_vars, tool_vars>>

InsertEdges ==
  /\ pc = "insert_edges"
  /\ LET tuples == EdgeTuples(db, all_symbols, all_edges, inserted_ids, tie)
     IN  /\ edge_tuples' = tuples
         /\ IF tuples # {} THEN db' \in insert_edges_bulk(db, tuples) ELSE db' = db
  /\ pc' = "metadata"
  /\ UNCHANGED <<tree, env, all_symbols, all_edges, files_processed, inserted_ids,
                 errors, result, history>>
  /\ UNCHANGED <<query_vars, impact_vars, tool_vars>>

\* DatabaseManager.set_metadata: the value kept under a key.
set_metadata(d, key, value) ==
  [d EXCEPT !.metadata = {m \in @ : m[1] # key} \cup {<<key, value>>}]

\* Record the metadata and return the success result.
Finish ==
  /\ pc = "metadata"
  /\ db' = set_metadata(set_metadata(set_metadata(db,
              "index_timestamp", builds),
              "indexed_files", files_processed),
              "indexed_symbols", Len(all_symbols))
  /\ result' = IndexingResult(TRUE, files_processed, Len(all_symbols),
                              Cardinality(edge_tuples), errors)
  /\ pc' = "idle"
  /\ all_symbols' = <<>>
  /\ all_edges' = <<>>
  /\ files_processed' = 0
  /\ inserted_ids' = <<>>
  /\ edge_tuples' = {}
  /\ UNCHANGED errors
  /\ UNCHANGED <<tree, env, history>>
  /\ UNCHANGED <<query_vars, impact_vars, tool_vars>>

Next ==
  \/ \E file \in {FileA, FileB, FileC} :
        \E content \in Contents[file] : EditTree(file, content)
  \/ BuildStart
  \/ Clear
  \/ DiscoverRaise
  \/ DiscoverNone
  \/ Parse
  \/ InsertSymbols
  \/ InsertSymbolsRaise
  \/ InsertAliases
  \/ PatchParents
  \/ InsertEdges
  \/ Finish

Spec == Init /\ [][Next]_vars

\* build_index from entry to return on tree t and store d: the stores and
\* results it can end with (the transactions of the actions above, run to
\* completion).
build_index(t, d, stamp, order) ==
  LET cleared == IF force_rebuild THEN clear_database(d) ELSE d
      source_files == find_source_files(t)
      parsed == Parsed(t, source_files, Len(source_files))
      records == SymbolRecords(parsed.symbols)
      ids == InsertedIds(cleared, records)
      d1 == insert_symbols_bulk(cleared, records)
      all_aliases == AllAliases(parsed.symbols, ids, 1)
      d2 == IF all_aliases # <<>> THEN insert_aliases_bulk(d1, all_aliases) ELSE d1
      d3 == UpdateParents(d2, parsed.symbols, ids)
      tuples == EdgeTuples(d3, parsed.symbols, parsed.edges, ids, order)
      Done(d4) ==
        [db |-> set_metadata(set_metadata(set_metadata(d4,
                   "index_timestamp", stamp),
                   "indexed_files", parsed.files),
                   "indexed_symbols", Len(parsed.symbols)),
         result |-> IndexingResult(TRUE, parsed.files, Len(parsed.symbols),
                                   Cardinality(tuples), parsed.errors)]
  IN  IF ~sys_bound
        THEN {[db |-> cleared,
               result |-> IndexingResult(FALSE, 0, 0, 0,
                 <<"Indexing failed: name 'sys' is not defined">>)]}
      ELSE IF source_files = <<>>
        THEN {[db |-> cleared,
               result |-> IndexingResult(TRUE, 0, 0, 0,
                                         <<"No supported source files found">>)]}
      ELSE IF UniqueViolation(cleared, records)
        THEN {[db |-> cleared,
               result |-> IndexingResult(FALSE, 0, 0, 0,
                 <<"Indexing failed: UNIQUE constraint failed: symbols.canonical_id">>)]}
      ELSE IF tuples = {} THEN {Done(d3)}
      ELSE {Done(d4) : d4 \in insert_edges_bulk(d3, tuples)}

(***************************************************************************)
(* Properties of build_index                                               *)
(***************************************************************************)

\* The relations as they were when the last build began.
prev_snapshot == Snapshot(prev_db)

Ids(d) == {s.id : s \in d.symbols}

CanonicalIds(relations) == {s.canonical_id : s \in relations.symbols}

StoreErrorReported ==
  result.errors = <<"Indexing failed: UNIQUE constraint failed: symbols.canonical_id">>

C3_BuildIdempotent ==
  (pc = "idle" /\ unchanged) =>
     /\ Cardinality(db.symbols) = Cardinality(prev_snapshot.symbols)
     /\ Cardinality(db.edges) = Cardinality(prev_snapshot.edges)
     /\ CanonicalIds(db) = CanonicalIds(prev_snapshot)
     /\ result.success = prev_result.success
     /\ result.files_indexed = prev_result.files_indexed
     /\ result.symbols_found = prev_result.symbols_found
     /\ result.edges_created = prev_result.edges_created

\* A second build of an unchanged tree that stored symbols and edges.
C3_Witness ==
  /\ pc = "idle"
  /\ unchanged
  /\ result.success
  /\ Cardinality(db.symbols) >= 3
  /\ Cardinality(db.edges) >= 2

\* C7: after a build every edge row has both endpoints among the symbols
\* and two different endpoints.
C7_EdgesWellFormed ==
  pc = "idle" =>
     \A e \in db.edges :
        /\ e.from_id \in Ids(db)
        /\ e.to_id \in Ids(db)
        /\ e.from_id # e.to_id

\* A finished build that stored a resolved edge and an import-linkage edge.
C7_Witness ==
  /\ pc = "idle"
  /\ result.success
  /\ \E e \in db.edges : e.edge_type = "import"
  /\ \E e \in db.edges : e.edge_type # "import"

AliasCount(d, s, type) ==
  Cardinality({a \in d.aliases : a.symbol_id = s.id /\ a.alias_type = type})

\* C8: after a build every symbol has exactly one canonical and exactly one
\* simple alias, and every method exactly one qualified alias.
C8_AliasesPerSymbol ==
  pc = "idle" =>
     \A s \in db.symbols :
        /\ AliasCount(db, s, "canonical") = 1
        /\ AliasCount(db, s, "simple") = 1
        /\ s.kind = "method" => AliasCount(db, s, "qualified") = 1

\* A finished build that stored a method, with its three aliases, next to
\* symbols of other kinds.
C8_Witness ==
  /\ pc = "idle"
  /\ result.success
  /\ \E s \in db.symbols :
        /\ s.kind = "method"
        /\ AliasCount(db, s, "qualified") = 1
        /\ Cardinality({a \in db.aliases : a.symbol_id = s.id}) = 3
  /\ \E s \in db.symbols : s.kind = "import"
  /\ \E s \in db.symbols : s.kind = "function"

ClassLike == {"class", "interface", "struct"}

\* The names that stand before "(" in the source texts above: every edge
\* those texts give rise to comes from a call expression f(), g().
CalledNames == {<<"f">>, <<"g">>, <<"g", "g">>, <<"m">>}

FromCallExpression(edge) == edge.to_symbol \in CalledNames

ImportLinkage(e) ==
  /\ Len(e.provenance) >= 7
  /\ SubSeq(e.provenance, 1, 7) = <<"i", "m", "p", "o", "r", "t", " ">>

FromSelfCall(edge) ==
  edge.from_symbol = <<"n">> /\ edge.to_symbol = <<"m">>

FailedFiles == {f \in {FileA, FileB, FileC} : built_tree[f] = "bad"}

QueryInit ==
  /\ tree \in Trees
  /\ sys_bound = TRUE
  /\ tie \in {"asc", "desc"}
  /\ \E built \in build_index(tree, EmptyDb, 1, tie) :
        /\ db = built.db
        /\ result = built.result
  /\ pc = "idle"
  /\ all_symbols = <<>>
  /\ all_edges = <<>>
  /\ files_processed = 0
  /\ inserted_ids = <<>>
  /\ edge_tuples = {}
  /\ errors = <<>>
  /\ builds = 1
  /\ built_tree = tree
  /\ unchanged = FALSE
  /\ prev_db = EmptyDb
  /\ prev_result = NoResult
  /\ found = NoFind
  /\ search = NoSearch
  /\ located = NoLocation
  /\ discovered = NoDiscovery
  /\ StoreOpened
  /\ project = NoProject
  /\ ImpactIdle

\* The alias queries issued against a built store.
Queries == {<<"f">>, <<"g">>, <<"m">>, <<"c">>, <<"_">>}

QueryLimits == {1, 10}

QueryContexts == {None, FileA, FileB, FileC}

\* DatabaseManager.find_symbols_by_alias called on the store of a finished
\* build.
Find(query, limit, context_file) ==
  /\ pc = "idle"
  /\ found' = [query |-> query, limit |-> limit, context_file |-> context_file,
               rows |-> find_symbols_by_alias(db, query, limit, context_file, tie)]
  /\ UNCHANGED <<tree, db, env, pc, locals, result, history>>
  /\ UNCHANGED <<search, located, impact_vars, tool_vars>>

QueryNext ==
  \E query \in Queries, limit \in QueryLimits, context_file \in QueryContexts :
     Find(query, limit, context_file)

QuerySpec == QueryInit /\ [][QueryNext]_vars

(***************************************************************************)
(* The query engine (core/query.py)                                        *)
(***************************************************************************)

\* str.strip(): the text without the blanks at its ends.
RECURSIVE strip(_)
strip(t) ==
  IF t = <<>> THEN t
  ELSE IF Head(t) = " " THEN strip(Tail(t))
  ELSE IF t[Len(t)] = " " THEN strip(SubSeq(t, 1, Len(t) - 1))
  ELSE t

\* The dict find_symbols builds from one row; no parser output of the
\* model carries a signature, so display_text is "<kind> <name>".
SearchSymbol(match) ==
  [id |-> match.id, name |-> match.name, kind |-> match.kind, file |-> match.file,
   line |-> match.line, column |-> match.column, parent_id |-> match.parent_id,
   canonical_id |-> match.canonical_id, matched_alias |-> match.matched_alias,
   match_type |-> match.match_type,
   display_text |-> [kind |-> match.kind, name |-> match.name],
   location |-> [file |-> match.file, line |-> match.line]]

\* XRayQueryEngine.find_symbols
find_symbols(d, query, limit, order) ==
  IF strip(query) = <<>>
    THEN [query |-> query, limit |-> limit, total_matches |-> 0, symbols |-> <<>>]
    ELSE LET matches == find_symbols_by_alias(d, strip(query), limit, None, order)
             symbols == [k \in 1..Len(matches) |-> SearchSymbol(matches[k])]
         IN  [query |-> query, limit |-> limit, total_matches |-> Len(symbols),
              symbols |-> symbols]

\* The searches issued: the canonical id of a stored symbol, a name, a
\* name between blanks, a blank.
SearchQueries(d) ==
  {x.canonical_id : x \in d.symbols}
    \cup {<<"f">>, <<"g">>, <<"m">>, <<" ", "g", " ">>, <<" ">>}

FindSymbols(query, limit) ==
  /\ pc = "idle"
  /\ search' = find_symbols(db, query, limit, tie)
  /\ UNCHANGED <<tree, db, env, pc, locals, result, history>>
  /\ UNCHANGED <<found, located, impact_vars, tool_vars>>

SearchNext ==
  \E query \in SearchQueries(db), limit \in QueryLimits : FindSymbols(query, limit)

SearchSpec == QueryInit /\ [][SearchNext]_vars

find_symbol_at_location(d, file, line, order) ==
  LET rows == {r \in d.symbols :
                 r.file = file /\ r.line <= line
                   /\ (r.end_line = 0 \/ r.end_line >= line)}
      first == {r \in rows :
                  \A o \in rows :
                     \/ o.line < r.line
                     \/ o.line = r.line /\ o.column < r.column
                     \/ /\ o.line = r.line
                        /\ o.column = r.column
                        /\ IF order = "asc" THEN r.id <= o.id ELSE r.id >= o.id}
  IN  IF rows = {} THEN <<>> ELSE <<CHOOSE r \in first : TRUE>>

\* The dict get_symbol_at_location builds from the row.
LocatedSymbol(symbol_data) ==
  [id |-> symbol_data.id, name |-> symbol_data.name, kind |-> symbol_data.kind,
   file |-> symbol_data.file, line |-> symbol_data.line,
   column |-> symbol_data.column, end_line |-> symbol_data.end_line,
   parent_id |-> symbol_data.parent_id,
   display_text |-> [kind |-> symbol_data.kind, name |-> symbol_data.name],
   location |-> [file |-> symbol_data.file, line |-> symbol_data.line]]

\* XRayQueryEngine.get_symbol_at_location
get_symbol_at_location(d, file, line, order) ==
  LET symbol_data == find_symbol_at_location(d, file, line, order)
  IN  [file |-> file, line |-> line,
       symbol |-> IF symbol_data # <<>>
                    THEN <<LocatedSymbol(symbol_data[1])>> ELSE <<>>]

\* The locations asked for: a file of the root, named relative to it, and
\* a line of it or just past its end.
LocateFiles == {relative_to(FileA), relative_to(FileB), relative_to(FileC)}

LocateLines == 1..6

Locate(file, line) ==
  /\ pc = "idle"
  /\ located' = get_symbol_at_location(db, file, line, tie)
  /\ UNCHANGED <<tree, db, env, pc, locals, result, history>>
  /\ UNCHANGED <<found, search, impact_vars, tool_vars>>

LocateNext ==
  \E file \in LocateFiles, line \in LocateLines : Locate(file, line)

LocateSpec == QueryInit /\ [][LocateNext]_vars

\* A stored symbol covers line L of its file.
Covers(S, file, L) ==
  /\ S.file = file
  /\ S.line <= L
  /\ L <= (IF S.end_line > S.line THEN S.end_line ELSE S.line)

C11_CanonicalIdFindsSymbol ==
  \A S \in db.symbols :
     (search.limit = 1 /\ search.query = S.canonical_id) =>
        /\ search.total_matches = 1
        /\ Len(search.symbols) = 1
        /\ search.symbols[1].id = S.id
        /\ search.symbols[1].canonical_id = S.canonical_id

\* A search for the canonical id of a class that is also a prefix of the
\* canonical id of its method.
C11_Witness ==
  /\ search.limit = 1
  /\ \E S \in db.symbols :
        /\ S.kind = "class"
        /\ search.query = S.canonical_id
        /\ \E a \in db.aliases :
              /\ a.symbol_id # S.id
              /\ Like(<<"%">> \o S.canonical_id \o <<"%">>, a.alias_name)

(***************************************************************************)
(* analyze_impact (core/impact.py), one action per iteration of its loop   *)
(***************************************************************************)

\* Symbols and edges of the stores the traversal is run on.  The depths
\* asked for run from 0 to the number of symbols.
NumSymbols == 3
MaxEdges == 3

ImpactNames == <<<<"f">>, <<"g">>, <<"h">>, <<"m">>, <<"u">>>>

\* Functions f, g, h, ... declared in turn in a.py and b.py.
ImpactSymbols ==
  [i \in 1..NumSymbols |->
     Symbol(ImpactNames[i], "function", IF i % 2 = 1 THEN FileA ELSE FileB,
            i, 4, i + 1, NoParent)]

\* The edge rows a build stores for references by name between these
\* symbols: no self-loop, one row per (from_id, to_id, edge_type).
ImpactEdgeRows ==
  {[from_id |-> x[1], to_id |-> x[2], edge_type |-> "access",
    provenance |-> ImpactNames[x[1]] \o <<" ", "-", ">", " ">> \o ImpactNames[x[2]]] :
     x \in {y \in (1..NumSymbols) \X (1..NumSymbols) : y[1] # y[2]}}

\* A store holding the symbols and their aliases as build_index stores
\* them, and up to MaxEdges edges.
ImpactStores ==
  LET records == SymbolRecords(ImpactSymbols)
      ids == InsertedIds(EmptyDb, records)
      d1 == insert_symbols_bulk(EmptyDb, records)
      d2 == insert_aliases_bulk(d1, AllAliases(ImpactSymbols, ids, 1))
  IN  {[d2 EXCEPT !.edges = edges] :
         edges \in {e \in SUBSET ImpactEdgeRows : Cardinality(e) <= MaxEdges}}

ImpactInit ==
  /\ tree = [f \in {FileA, FileB, FileC} |-> "absent"]
  /\ sys_bound = TRUE
  /\ tie \in {"asc", "desc"}
  /\ db \in ImpactStores
  /\ result = IndexingResult(TRUE, 2, NumSymbols, Cardinality(db.edges), <<>>)
  /\ pc = "idle"
  /\ all_symbols = <<>>
  /\ all_edges = <<>>
  /\ files_processed = 0
  /\ inserted_ids = <<>>
  /\ edge_tuples = {}
  /\ errors = <<>>
  /\ builds = 1
  /\ built_tree = tree
  /\ unchanged = FALSE
  /\ prev_db = EmptyDb
  /\ prev_result = NoResult
  /\ found = NoFind
  /\ search = NoSearch
  /\ located = NoLocation
  /\ discovered = NoDiscovery
  /\ StoreOpened
  /\ project = NoProject
  /\ ImpactIdle

build_and_query_vars ==
  <<tree, db, sys_bound, tie, pc, all_symbols, all_edges, files_processed,
    inserted_ids, edge_tuples, errors, result, builds, built_tree, unchanged,
    prev_db,
    prev_result, found, search, located>>

build_vars == <<build_and_query_vars, tool_vars>>

SeedLimit == 10

ImpactNode(dependent, depth) ==
  [id |-> dependent.id, name |-> dependent.name, kind |-> dependent.kind,
   file |-> dependent.file, line |-> dependent.line, depth |-> depth]

\* matches = find_symbols_by_alias(symbol_name, limit=10); if not matches:
\* return the empty result.
AnalyzeNotFound(name, depth) ==
  /\ ipc = "idle"
  /\ find_symbols_by_alias(db, name, SeedLimit, None, tie) = <<>>
  /\ symbol_name' = name
  /\ max_depth' = depth
  /\ analysis' = NoAnalysis
  /\ ipc' = "done"
  /\ calls' = calls + 1
  /\ UNCHANGED <<seed, queue, visited, impacts, prev_call, build_vars>>

\* A visited set that outlives the call.
stale_visited == visited

\* visited: Set[int] = set(), a local of the call.
new_visited == {}

\* symbol = matches[0]; queue = deque([(symbol_id, 0)])
AnalyzeStart(name, depth) ==
  /\ ipc = "idle"
  /\ LET matches == find_symbols_by_alias(db, name, SeedLimit, None, tie)
     IN  /\ matches # <<>>
         /\ seed' = matches[1].id
         /\ queue' = <<<<matches[1].id, 0>>>>
  /\ symbol_name' = name
  /\ max_depth' = depth
  /\ visited' = new_visited
  /\ impacts' = <<>>
  /\ ipc' = "loop"
  /\ calls' = calls + 1
  /\ UNCHANGED <<analysis, prev_call, build_vars>>

\* A queue that keeps its head.
popleft_keeps_head(q) == q

\* queue.popleft(): what stays in the queue.
popleft(q) == Tail(q)

\* if current_id in visited or depth > max_depth
Skipped(current_id, depth) ==
  current_id \in visited \/ depth > max_depth

\* while queue: ... continue
AnalyzeSkip ==
  /\ ipc = "loop"
  /\ queue # <<>>
  /\ Skipped(queue[1][1], queue[1][2])
  /\ queue' = popleft(queue)
  /\ UNCHANGED <<symbol_name, max_depth, ipc, seed, visited, impacts, analysis,
                 calls, prev_call, build_vars>>

\* A for loop that reports a dependent at the depth of the node expanded.
Reported_at_parent_depth(dependents, seen, depth) ==
  LET fresh == SelectSeq(dependents, LAMBDA dependent : dependent.id \notin seen)
  IN  [k \in 1..Len(fresh) |-> ImpactNode(fresh[k], depth)]

\* The dependents the for loop reports: those not in visited.
Reported(dependents, seen, depth) ==
  LET fresh == SelectSeq(dependents, LAMBDA dependent : dependent.id \notin seen)
  IN  [k \in 1..Len(fresh) |-> ImpactNode(fresh[k], depth + 1)]

\* while queue: ... visited.add(current_id); for dependent in dependents
AnalyzeExpand ==
  /\ ipc = "loop"
  /\ queue # <<>>
  /\ ~Skipped(queue[1][1], queue[1][2])
  /\ LET current_id == queue[1][1]
         depth == queue[1][2]
     IN  \E dependents \in {get_symbol_dependents(db, current_id, tie)} :
         \E reported \in {Reported(dependents, visited \cup {current_id}, depth)} :
            /\ visited' = visited \cup {current_id}
            /\ impacts' = impacts \o reported
            /\ queue' = popleft(queue) \o
                          (IF depth + 1 <= max_depth
                             THEN [k \in 1..Len(reported) |->
                                     <<reported[k].id, reported[k].depth>>]
                             ELSE <<>>)
  /\ UNCHANGED <<symbol_name, max_depth, ipc, seed, analysis, calls, prev_call,
                 build_vars>>

\* impacts_by_depth: the nodes of each depth, in the order reported.
GroupByDepth(nodes) ==
  [key \in {nodes[k].depth : k \in 1..Len(nodes)} |->
     SelectSeq(nodes, LAMBDA n : n.depth = key)]

\* impacts_by_file: the nodes of each file, in the order reported.
GroupByFile(nodes) ==
  [key \in {nodes[k].file : k \in 1..Len(nodes)} |->
     SelectSeq(nodes, LAMBDA n : n.file = key)]

Max(S) == CHOOSE x \in S : \A y \in S : y <= x

\* Organize results and return.
AnalyzeFinish ==
  /\ ipc = "loop"
  /\ queue = <<>>
  /\ LET impacts_by_depth == GroupByDepth(impacts)
         impacts_by_file == GroupByFile(impacts)
     IN  analysis' =
           [found |-> TRUE, total_impacts |-> Len(impacts),
            max_depth |-> IF DOMAIN impacts_by_depth # {}
                            THEN Max(DOMAIN impacts_by_depth) ELSE 0,
            impacts_by_depth |-> impacts_by_depth,
            impacts_by_file |-> impacts_by_file]
  /\ ipc' = "done"
  /\ UNCHANGED <<symbol_name, max_depth, seed, queue, visited, impacts, calls,
                 prev_call, build_vars>>

ImpactNext ==
  \/ \E k \in 1..(NumSymbols + 1), depth \in 0..NumSymbols :
        AnalyzeNotFound(ImpactNames[k], depth)
  \/ \E k \in 1..(NumSymbols + 1), depth \in 0..NumSymbols :
        AnalyzeStart(ImpactNames[k], depth)
  \/ AnalyzeSkip
  \/ AnalyzeExpand
  \/ AnalyzeFinish

ImpactSpec == ImpactInit /\ [][ImpactNext]_vars

\* The call runs on one thread that keeps executing its loop.
ImpactLoop == AnalyzeSkip \/ AnalyzeExpand \/ AnalyzeFinish

ImpactLiveSpec == ImpactSpec /\ WF_vars(ImpactLoop)

\* Calls of analyze_impact in one behaviour.
MaxCalls == 2

\* analyze_impact called again on the unchanged store with the arguments of
\* the call that just returned.
AnalyzeAgain ==
  /\ ipc = "done"
  /\ calls < MaxCalls
  /\ calls' = calls + 1
  /\ prev_call' = [impacts |-> impacts, analysis |-> analysis]
  /\ LET matches == find_symbols_by_alias(db, symbol_name, SeedLimit, None, tie)
     IN  IF matches = <<>>
           THEN /\ analysis' = NoAnalysis
                /\ ipc' = "done"
                /\ UNCHANGED <<seed, queue, visited, impacts>>
           ELSE /\ seed' = matches[1].id
                /\ queue' = <<<<matches[1].id, 0>>>>
                /\ visited' = new_visited
                /\ impacts' = <<>>
                /\ ipc' = "loop"
                /\ UNCHANGED analysis
  /\ UNCHANGED <<symbol_name, max_depth, build_vars>>

ImpactRerunNext == ImpactNext \/ AnalyzeAgain

ImpactRerunSpec == ImpactInit /\ [][ImpactRerunNext]_vars

(***************************************************************************)
(* File discovery (LanguageDetector, parsers/base.py)                      *)
(***************************************************************************)

LANGUAGE_EXTENSIONS ==
  {<<".", "p", "y">>, <<".", "j", "s">>, <<".", "j", "s", "x">>,
   <<".", "t", "s">>, <<".", "t", "s", "x">>, <<".", "g", "o">>,
   <<".", "r", "s">>}

DEFAULT_IGNORE_PATTERNS ==
  {<<"n", "o", "d", "e", "_", "m", "o", "d", "u", "l", "e", "s">>,
   <<".", "g", "i", "t">>,
   <<"_", "_", "p", "y", "c", "a", "c", "h", "e", "_", "_">>,
   <<".", "p", "y", "t", "e", "s", "t", "_", "c", "a", "c", "h", "e">>,
   <<"d", "i", "s", "t">>, <<"b", "u", "i", "l", "d">>,
   <<".", "v", "e", "n", "v">>, <<"v", "e", "n", "v">>, <<".", "e", "n", "v">>,
   <<".", "m", "y", "p", "y", "_", "c", "a", "c", "h", "e">>,
   <<".", "t", "o", "x">>, <<"c", "o", "v", "e", "r", "a", "g", "e">>,
   <<".", "n", "y", "c", "_", "o", "u", "t", "p", "u", "t">>,
   <<"v", "e", "n", "d", "o", "r">>, <<"t", "a", "r", "g", "e", "t">>}

\* str(path): the parts of an absolute path, each after a "/".
RECURSIVE PathText(_)
PathText(parts) ==
  IF parts = <<>> THEN <<>>
  ELSE <<"/">> \o Head(parts) \o PathText(Tail(parts))

\* Path(file_path).suffix.lower(): the name from its last dot on, if that
\* dot is not its first character.
suffix_lower(parts) ==
  LET name == parts[Len(parts)]
      dots == {i \in 2..Len(name) : name[i] = "."}
  IN  IF dots = {} THEN <<>>
      ELSE LowerText(SubSeq(name, Max(dots), Len(name)))

is_supported_file(parts) == suffix_lower(parts) \in LANGUAGE_EXTENSIONS

\* A part of the path is a pattern, or a pattern occurs in the text of the
\* path.
should_ignore_path(parts, ignore_patterns) ==
  LET patterns == ignore_patterns \cup DEFAULT_IGNORE_PATTERNS
  IN  \/ \E i \in 1..Len(parts) : parts[i] \in patterns
      \/ \E pattern \in patterns : IsSubstring(pattern, PathText(parts))

\* sorted(): the texts in code-point order.
RECURSIVE sorted(_)
sorted(texts) ==
  IF texts = {} THEN <<>>
  ELSE LET first == CHOOSE t \in texts : \A o \in texts : ~TextLess(o, t)
       IN  <<first>> \o sorted(texts \ {first})

\* LanguageDetector.find_source_files over the entries root.rglob('*')
\* yields, each entry the parts below the root and whether it is a file.
LanguageDetector_find_source_files(root_path, entries, ignore_patterns) ==
  sorted({PathText(root_path \o e.parts) :
            e \in {x \in entries :
                     /\ x.is_file
                     /\ ~should_ignore_path(root_path \o x.parts, ignore_patterns)
                     /\ is_supported_file(root_path \o x.parts)}})

\* The roots walked: /r, and /dist/r below a directory named as a pattern.
WalkRoots == {<<<<"r">>>>, <<<<"d", "i", "s", "t">>, <<"r">>>>}

\* What the walk may meet: a.py, c.go, a.txt, dist/a.py, dists/a.py,
\* dist.py, s/a.py, and a directory e.py.
WalkEntries ==
  {[parts |-> <<<<"a", ".", "p", "y">>>>, is_file |-> TRUE],
   [parts |-> <<<<"c", ".", "g", "o">>>>, is_file |-> TRUE],
   [parts |-> <<<<"a", ".", "t", "x", "t">>>>, is_file |-> TRUE],
   [parts |-> <<<<"d", "i", "s", "t">>, <<"a", ".", "p", "y">>>>, is_file |-> TRUE],
   [parts |-> <<<<"d", "i", "s", "t", "s">>, <<"a", ".", "p", "y">>>>, is_file |-> TRUE],
   [parts |-> <<<<"d", "i", "s", "t", ".", "p", "y">>>>, is_file |-> TRUE],
   [parts |-> <<<<"s">>, <<"a", ".", "p", "y">>>>, is_file |-> TRUE],
   [parts |-> <<<<"e", ".", "p", "y">>>>, is_file |-> FALSE]}

\* The exclusions a caller adds: none, or the directory s.
UserPatterns == {{}, {<<"s">>}}

DiscoverInit ==
  /\ tree = [f \in {FileA, FileB, FileC} |-> "absent"]
  /\ db = EmptyDb
  /\ sys_bound = TRUE
  /\ tie = "asc"
  /\ pc = "idle"
  /\ all_symbols = <<>>
  /\ all_edges = <<>>
  /\ files_processed = 0
  /\ inserted_ids = <<>>
  /\ edge_tuples = {}
  /\ errors = <<>>
  /\ result = NoResult
  /\ builds = 0
  /\ built_tree = tree
  /\ unchanged = FALSE
  /\ prev_db = EmptyDb
  /\ prev_result = NoResult
  /\ found = NoFind
  /\ search = NoSearch
  /\ located = NoLocation
  /\ ImpactIdle
  /\ StoreOpened
  /\ project = NoProject
  /\ \E root_path \in WalkRoots, entries \in SUBSET WalkEntries,
        ignore_patterns \in UserPatterns :
        discovered = [root_path |-> root_path, entries |-> entries,
                      ignore_patterns |-> ignore_patterns,
                      source_files |-> <<>>, returned |-> FALSE]

FindSourceFiles ==
  /\ ~discovered.returned
  /\ discovered.root_path # <<>>
  /\ discovered' =
       [discovered EXCEPT
          !.source_files = LanguageDetector_find_source_files(
                             discovered.root_path, discovered.entries,
                             discovered.ignore_patterns),
          !.returned = TRUE]
  /\ UNCHANGED <<build_and_query_vars, impact_vars, lazy_vars, project>>

DiscoverNext == FindSourceFiles

DiscoverSpec == DiscoverInit /\ [][DiscoverNext]_vars

\* The files the walk met that have a mapped extension and no directory
\* between them and the root named as an exclusion.
AdmittedFiles ==
  {PathText(discovered.root_path \o e.parts) :
     e \in {x \in discovered.entries :
              /\ x.is_file
              /\ suffix_lower(x.parts) \in LANGUAGE_EXTENSIONS
              /\ \A i \in 1..(Len(x.parts) - 1) :
                    x.parts[i] \notin
                      discovered.ignore_patterns \cup DEFAULT_IGNORE_PATTERNS}}

Construct(component) ==
  /\ component \notin components
  /\ components' = components \cup {component}
  /\ schema_present' = (schema_present \/ component = "indexer")
  /\ UNCHANGED <<outcome, build_and_query_vars, discovered, impact_vars, project>>

\* The component a call is a method of.
ComponentOf(op) ==
  IF op \in {"analyze_impact", "analyze_dependencies"}
    THEN "impact_analyzer" ELSE "query_engine"

\* The calls issued, with their arguments.
LazyCalls ==
  {[op |-> "find_symbols", args |-> <<query, limit>>] :
     query \in {<<"f">>, <<"g">>}, limit \in QueryLimits}
  \cup {[op |-> "get_symbol_at_location", args |-> <<file, line>>] :
          file \in LocateFiles, line \in {1, 2}}
  \cup {[op |-> "analyze_impact", args |-> <<name, depth>>] :
          name \in {<<"f">>, <<"g">>}, depth \in {0, 1}}
  \cup {[op |-> "analyze_dependencies", args |-> <<name>>] :
          name \in {<<"f">>, <<"g">>}}
  \cup {[op |-> "get_statistics", args |-> <<>>]}

\* What a call returns from the relations before any build: they hold no
\* symbol, so the analyses take their not-found exit.
ReturnedValue(call) ==
  CASE call.op = "find_symbols" ->
         find_symbols(db, call.args[1], call.args[2], tie)
    [] call.op = "get_symbol_at_location" ->
         get_symbol_at_location(db, call.args[1], call.args[2], tie)
    [] call.op = "analyze_impact" -> NoAnalysis
    [] call.op = "analyze_dependencies" ->
         [found |-> FALSE, direct_dependencies |-> <<>>, dependency_files |-> {}]
    [] OTHER ->
         [symbols_count |-> Cardinality(db.symbols),
          edges_count |-> Cardinality(db.edges),
          aliases_count |-> Cardinality(db.aliases), symbol_kinds |-> <<>>]

\* A call on a constructed component, no build run yet.  get_connection opens (and so
\* creates) xray.db without any relation; the first SELECT of the call
\* then raises sqlite3.OperationalError: no such table, which no method
\* catches.
Call(call) ==
  /\ ComponentOf(call.op) \in components
  /\ builds = 0
  /\ outcome' =
       IF schema_present
         THEN [op |-> call.op, args |-> call.args, raised |-> FALSE,
               value |-> ReturnedValue(call)]
         ELSE [op |-> call.op, args |-> call.args, raised |-> TRUE,
               value |-> <<>>]
  /\ UNCHANGED <<schema_present, components, build_and_query_vars, discovered,
                 impact_vars, project>>

\* A root on which no component was constructed and no build was run.
LazyInit ==
  /\ tree = [f \in {FileA, FileB, FileC} |-> "absent"]
  /\ db = EmptyDb
  /\ sys_bound = TRUE
  /\ tie \in {"asc", "desc"}
  /\ pc = "idle"
  /\ all_symbols = <<>>
  /\ all_edges = <<>>
  /\ files_processed = 0
  /\ inserted_ids = <<>>
  /\ edge_tuples = {}
  /\ errors = <<>>
  /\ result = NoResult
  /\ builds = 0
  /\ built_tree = tree
  /\ unchanged = FALSE
  /\ prev_db = EmptyDb
  /\ prev_result = NoResult
  /\ found = NoFind
  /\ search = NoSearch
  /\ located = NoLocation
  /\ ImpactIdle
  /\ discovered = NoDiscovery
  /\ schema_present = FALSE
  /\ components = {}
  /\ outcome = NoOutcome
  /\ project = NoProject

LazyNext ==
  \/ \E component \in {"indexer", "query_engine", "impact_analyzer"} :
        Construct(component)
  \/ \E call \in LazyCalls : Call(call)

LazySpec == LazyInit /\ [][LazyNext]_vars

\* C24: a query issued on a root before any indexer was constructed or any
\* build was run finds the relations present and returns an empty or
\* not-found result.
C24_QueryBeforeIndexer ==
  outcome.op # "none" =>
     /\ ~outcome.raised
     /\ outcome.op = "find_symbols" => outcome.value.total_matches = 0
     /\ outcome.op = "get_symbol_at_location" => outcome.value.symbol = <<>>
     /\ outcome.op \in {"analyze_impact", "analyze_dependencies"} =>
          ~outcome.value.found
     /\ outcome.op = "get_statistics" => outcome.value.symbols_count = 0

(***************************************************************************)
(* analyze_project_wide_impact (core/impact.py)                            *)
(***************************************************************************)

\* The while loop of analyze_impact run to its end: the impacts list.
RECURSIVE Traverse(_, _, _, _, _, _)
Traverse(d, pending, seen, reported, depth_cap, order) ==
  IF pending = <<>> THEN reported
  ELSE LET current_id == pending[1][1]
           depth == pending[1][2]
       IN  IF current_id \in seen \/ depth > depth_cap
             THEN Traverse(d, popleft(pending), seen, reported, depth_cap, order)
             ELSE LET nodes == Reported(get_symbol_dependents(d, current_id, order),
                                        seen \cup {current_id}, depth)
                  IN  Traverse(d,
                               popleft(pending) \o
                                 (IF depth + 1 <= depth_cap
                                    THEN [k \in 1..Len(nodes) |->
                                            <<nodes[k].id, nodes[k].depth>>]
                                    ELSE <<>>),
                               seen \cup {current_id}, reported \o nodes,
                               depth_cap, order)

\* analyze_impact as one call: seeded at the first row of the alias lookup.
\* The result is kept as its list of impact nodes and their number, from
\* which impacts_by_depth and impacts_by_file are grouped.
analyze_impact(d, name, depth_cap, order) ==
  LET matches == find_symbols_by_alias(d, name, SeedLimit, None, order)
      nodes == IF matches = <<>> THEN <<>>
               ELSE Traverse(d, <<<<matches[1].id, 0>>>>, {}, <<>>, depth_cap, order)
  IN  [symbol_name |-> name, total_impacts |-> Len(nodes), impacts |-> nodes]

\* max_depth=3 of the batch.
ProjectDepth == 3

\* SELECT s.name, s.kind, s.file, COUNT(e.to_id) ... WHERE s.kind IN
\* ('function', 'method', 'class') GROUP BY s.id ... ORDER BY
\* dependency_count DESC LIMIT ?; rows of equal count come in rowid order,
\* ascending or descending.
RECURSIVE MostConnected(_, _, _)
MostConnected(d, rows, order) ==
  IF rows = {} THEN <<>>
  ELSE LET count(s) == Cardinality({e \in d.edges : e.to_id = s.id})
           first == CHOOSE r \in rows :
                      \A o \in rows :
                         \/ count(o) < count(r)
                         \/ /\ count(o) = count(r)
                            /\ IF order = "asc" THEN r.id <= o.id ELSE r.id >= o.id
       IN  <<first>> \o MostConnected(d, rows \ {first}, order)

\* cursor.fetchall(): one row per symbol (GROUP BY s.id); the id names the
\* symbol row a fetched row was grouped from.
high_impact_symbols(d, max_symbols, order) ==
  LET picked == Take(MostConnected(d, {s \in d.symbols :
                       s.kind \in {"function", "method", "class"}}, order),
                     max_symbols)
  IN  [k \in 1..Len(picked) |->
         [id |-> picked[k].id, name |-> picked[k].name, kind |-> picked[k].kind,
          file |-> picked[k].file,
          dependency_count |->
            Cardinality({e \in d.edges : e.to_id = picked[k].id})]]

\* sum(result['total_impacts'] for result in impact_results.values())
RECURSIVE SumImpacts(_, _)
SumImpacts(impact_results, names) ==
  IF names = {} THEN 0
  ELSE LET name == CHOOSE x \in names : TRUE
       IN  impact_results[name].total_impacts
             + SumImpacts(impact_results, names \ {name})

\* impact_results is a dict keyed by symbol name: of the rows that share a
\* name the last one analysed leaves its entry.  The score is kept as the
\* pair (dividend, divisor) of the division.
analyze_project_wide_impact(d, max_symbols, order) ==
  LET rows == high_impact_symbols(d, max_symbols, order)
      names == {rows[k].name : k \in 1..Len(rows)}
      impact_results ==
        [name \in names |-> analyze_impact(d, name, ProjectDepth, order)]
      total_impacts == SumImpacts(impact_results, names)
  IN  [max_symbols |-> max_symbols,
       high_impact_symbols |-> rows,
       detailed_impacts |-> impact_results,
       total_symbols_analyzed |-> Len(rows),
       project_coupling_score |->
         IF rows # <<>> THEN <<total_impacts, Len(rows)>> ELSE <<0, 1>>]

ProjectLimits == {2, 100}

AnalyzeProject(max_symbols) ==
  /\ pc = "idle"
  /\ project' = analyze_project_wide_impact(db, max_symbols, tie)
  /\ UNCHANGED <<build_and_query_vars, impact_vars, discovered, lazy_vars>>

ProjectNext == \E max_symbols \in ProjectLimits : AnalyzeProject(max_symbols)

ProjectSpec == QueryInit /\ [][ProjectNext]_vars

\* The impact counts of the selected rows, one per row, added up.
RECURSIVE SumOverRows(_, _)
SumOverRows(rows, k) ==
  IF k > Len(rows) THEN 0
  ELSE analyze_impact(db, rows[k].name, ProjectDepth, tie).total_impacts
         + SumOverRows(rows, k + 1)

C4_DepthZeroEmpty ==
  (ipc = "done" /\ analysis.found /\ max_depth = 0) =>
     /\ analysis.total_impacts = 0
     /\ DOMAIN analysis.impacts_by_depth = {}
     /\ DOMAIN analysis.impacts_by_file = {}

\* The symbols other than the seed from which the seed is reached along
\* one or more edges.
RECURSIVE Closure(_, _)
Closure(edges, reached) ==
  LET more == reached \cup {e.from_id : e \in {x \in edges : x.to_id \in reached}}
  IN  IF more = reached THEN reached ELSE Closure(edges, more)

TransitiveDependents(d, id) ==
  Closure(d.edges, {e.from_id : e \in {x \in d.edges : x.to_id = id}}) \ {id}

\* C5: the loop of analyze_impact ends for every graph and depth, and
\* visited never holds more ids than the store has symbols.
C5_ImpactTerminates ==
  /\ [](Cardinality(visited) <= Cardinality(db.symbols))
  /\ (ipc = "loop") ~> (ipc = "done")

\* A finished traversal from a seed on a cycle that visited every symbol.
C5_Witness ==
  /\ ipc = "done"
  /\ analysis.found
  /\ seed \in Closure(db.edges, {e.from_id : e \in {x \in db.edges : x.to_id = seed}})
  /\ Cardinality(visited) = Cardinality(db.symbols)

\* C6: with max_depth at least the number of symbols, the reported symbols
\* are exactly the transitive dependents of the seed, the seed excluded.
C6_ReportsClosure ==
  (ipc = "done" /\ analysis.found /\ max_depth >= Cardinality(db.symbols)) =>
     {impacts[k].id : k \in 1..Len(impacts)} = TransitiveDependents(db, seed)

\* A deep enough traversal from a seed on a cycle that reported a
\* dependent two edges away.
C6_Witness ==
  /\ ipc = "done"
  /\ analysis.found
  /\ max_depth >= Cardinality(db.symbols)
  /\ \E k \in 1..Len(impacts) : impacts[k].depth = 2
  /\ seed \in Closure(db.edges, {e.from_id : e \in {x \in db.edges : x.to_id = seed}})

\* C18: for max_depth >= 1 every node of the returned impact list has a
\* depth between 1 and max_depth, and the max_depth of the result does not
\* exceed the max_depth asked for.
C18_DepthWithinBound ==
  (ipc = "done" /\ analysis.found /\ max_depth >= 1) =>
     /\ \A d \in DOMAIN analysis.impacts_by_depth :
           \A k \in 1..Len(analysis.impacts_by_depth[d]) :
              /\ analysis.impacts_by_depth[d][k].depth >= 1
              /\ analysis.impacts_by_depth[d][k].depth <= max_depth
     /\ analysis.max_depth <= max_depth

\* C19: in the result every dependent symbol appears at most once, so in
\* one depth group only, the seed does not appear, and total_impacts is
\* the number of distinct impacted symbols.
C19_EachDependentOnce ==
  (ipc = "done" /\ analysis.found) =>
     LET groups == analysis.impacts_by_depth
         entries == {<<d, k>> \in (DOMAIN groups) \X (1..(2 * MaxEdges)) :
                       k <= Len(groups[d])}
         ids == {groups[e[1]][e[2]].id : e \in entries}
     IN  /\ \A e1, e2 \in entries :
               groups[e1[1]][e1[2]].id = groups[e2[1]][e2[2]].id => e1 = e2
         /\ seed \notin ids
         /\ analysis.total_impacts = Cardinality(ids)

\* The number of edges on a shortest path from a symbol to the seed, -1
\* when there is none: the symbol lies in the k-th layer of predecessors.
RECURSIVE EdgesToSeed(_, _, _, _)
EdgesToSeed(id, frontier, seen, k) ==
  IF id \in frontier THEN k
  ELSE IF frontier = {} THEN -1
  ELSE EdgesToSeed(id,
                   {e.from_id : e \in {x \in db.edges : x.to_id \in frontier}}
                     \ (seen \cup frontier),
                   seen \cup frontier, k + 1)

\* C30: the smallest depth at which a symbol is reported is the length of
\* a shortest path of edges from it to the seed, and every depth from 1 to
\* the largest reported one has a symbol.
C30_DepthIsDistance ==
  (ipc = "done" /\ analysis.found) =>
     /\ \A d \in DOMAIN analysis.impacts_by_depth :
           \A k \in 1..Len(analysis.impacts_by_depth[d]) :
              LET node == analysis.impacts_by_depth[d][k]
                  depths == {d2 \in DOMAIN analysis.impacts_by_depth :
                               \E k2 \in 1..Len(analysis.impacts_by_depth[d2]) :
                                  analysis.impacts_by_depth[d2][k2].id = node.id}
              IN  /\ node.depth = d
                  /\ \A d2 \in depths : EdgesToSeed(node.id, {seed}, {}, 0) <= d2
                  /\ EdgesToSeed(node.id, {seed}, {}, 0) \in depths
     /\ \A k \in 1..analysis.max_depth : k \in DOMAIN analysis.impacts_by_depth

\* A symbol reported at depth 1 and again at depth 2, one edge away from
\* the seed.
C30_Witness ==
  /\ ipc = "done"
  /\ analysis.found
  /\ analysis.max_depth = 2
  /\ \E k1 \in 1..Len(analysis.impacts_by_depth[1]) :
     \E k2 \in 1..Len(analysis.impacts_by_depth[2]) :
        /\ analysis.impacts_by_depth[1][k1].id = analysis.impacts_by_depth[2][k2].id
        /\ EdgesToSeed(analysis.impacts_by_depth[1][k1].id, {seed}, {}, 0) = 1

MatchedAliasOf(d, row) ==
  {a \in d.aliases : /\ a.symbol_id = row.id
                      /\ a.alias_name = row.matched_alias
                      /\ a.alias_type = row.match_type}

\* C10: a lookup with a context file returns only rows whose matched alias
\* has no context_file or the context_file that was passed.
C10_ContextFilter ==
  (pc = "idle" /\ found # NoFind /\ Truthy(found.context_file)) =>
     \A k \in 1..Len(found.rows) :
        \E a \in MatchedAliasOf(db, found.rows[k]) :
           a.context_file = None \/ a.context_file = found.context_file

\* A lookup in the context of b.py that returned a contextual alias of b.py
\* and a global alias while an alias of another file matched the pattern.
C10_Witness ==
  /\ pc = "idle"
  /\ found.context_file = FileB
  /\ \E k \in 1..Len(found.rows) :
        \E a \in MatchedAliasOf(db, found.rows[k]) : a.context_file = FileB
  /\ \E k \in 1..Len(found.rows) :
        \E a \in MatchedAliasOf(db, found.rows[k]) : a.context_file = None
  /\ \E a \in db.aliases :
        /\ Like(<<"%">> \o found.query \o <<"%">>, a.alias_name)
        /\ a.context_file = FileA

\* The priority the alias types are meant to have in a result.
TypePriority ==
  ("canonical" :> 0) @@ ("qualified" :> 1) @@ ("simple" :> 2) @@ ("import" :> 3)

\* r1 does not come after r2 by bucket, then type priority, then name.
RankedNotAfter(r1, r2, query) ==
  LET b1 == MatchBucket(r1.matched_alias, query)
      b2 == MatchBucket(r2.matched_alias, query)
      p1 == TypePriority[r1.match_type]
      p2 == TypePriority[r2.match_type]
  IN  IF b1 # b2 THEN b1 < b2
      ELSE IF p1 # p2 THEN p1 < p2
      ELSE ~TextLess(r2.name, r1.name)

====
